---- MODULE Spec2Model ----
(***************************************************************************)
(* Model of the UART RPC channel of mgos_rpc_channel_uart.c: the frame     *)
(* dispatcher (receive, frame extraction, checksum verification, handshake,*)
(* transmit) and the channel operations connect, send_frame and close.     *)
(*                                                                         *)
(* Bytes are their ASCII codes.  32-bit words (the CRC) are tuples of 8    *)
(* nibbles, most significant first, so that they keep their width.         *)
(***************************************************************************)
EXTENDS Integers, Sequences, FiniteSets, TLC

VARIABLES
  wait_for_start_frame,     \* chd->wait_for_start_frame (set at construction)
  waiting_for_start_frame,  \* chd->waiting_for_start_frame
  connected,                \* chd->connected
  sending,                  \* chd->sending
  sending_user_frame,       \* chd->sending_user_frame
  resume_uart,              \* chd->resume_uart
  recv_mbuf,                \* chd->recv_mbuf, a sequence of bytes
  send_mbuf,                \* chd->send_mbuf, a sequence of bytes
  dispatcher,               \* whether the UART driver has the dispatcher registered
  suspended,                \* console suspend depth: suspend calls minus resume calls
  script,                   \* the byte stream the peer puts on the line
  pos,                      \* how many bytes of script the driver has handed over
  op,                       \* the last operation performed
  ret,                      \* the value returned by the last send_frame
  events,                   \* the events the last operation raised through ev_handler
  diags,                    \* the LOG levels the last operation emitted
  frames,                   \* the frames the last dispatcher run extracted
  sendq,                    \* the frames queued in send_mbuf: kind and unwritten length
  mid,                      \* the channel between the two halves of the last dispatcher run
  resumes                   \* console resume calls made by the last operation

vars == <<wait_for_start_frame, waiting_for_start_frame, connected, sending,
          sending_user_frame, resume_uart, recv_mbuf, send_mbuf, dispatcher,
          suspended, script, pos, op, ret, events, diags, frames, sendq,
          mid, resumes>>

flags == <<wait_for_start_frame, waiting_for_start_frame, connected, sending,
           sending_user_frame, resume_uart>>

(***************************************************************************)
(* Bounds of the model.                                                    *)
(***************************************************************************)
\* rpc.max_frame_size of the system configuration.
MaxFrameSize == 6
\* How far below zero the console suspend depth is followed.
MaxUnderflow == 1
\* The write capacities the driver offers besides none: a partial one and an ample one.
TxSmall == 8
TxLarge == 40
\* The send backlog up to which the peer is followed sending its stream once more.
MaxBacklog == 8

(***************************************************************************)
(* Program constants.                                                      *)
(***************************************************************************)
QUOTE == 34
RBRACE == 125
EOF_CHAR == <<4>>
FRAME_DELIMETER == <<QUOTE, QUOTE, QUOTE>>
FRAME_DELIMETER_LEN == 3
META_MIN_LEN == 8

(***************************************************************************)
(* 32-bit words and cs_crc32.                                              *)
(***************************************************************************)
NibXor(a, b) ==
  LET bit(n, k) == (n \div k) % 2
  IN  ((bit(a, 1) + bit(b, 1)) % 2) + 2 * ((bit(a, 2) + bit(b, 2)) % 2)
      + 4 * ((bit(a, 4) + bit(b, 4)) % 2) + 8 * ((bit(a, 8) + bit(b, 8)) % 2)

WordXor(u, v) ==
  <<NibXor(u[1], v[1]), NibXor(u[2], v[2]), NibXor(u[3], v[3]), NibXor(u[4], v[4]),
    NibXor(u[5], v[5]), NibXor(u[6], v[6]), NibXor(u[7], v[7]), NibXor(u[8], v[8])>>
WordNot(u) ==
  <<15 - u[1], 15 - u[2], 15 - u[3], 15 - u[4], 15 - u[5], 15 - u[6], 15 - u[7], 15 - u[8]>>
WordShr4(u) == <<0, u[1], u[2], u[3], u[4], u[5], u[6], u[7]>>
Zero32 == <<0, 0, 0, 0, 0, 0, 0, 0>>
Ones32 == <<15, 15, 15, 15, 15, 15, 15, 15>>

\* The nibble-wise table of the reflected CRC-32 polynomial 0xEDB88320.
s_crc32tab ==
  << <<0,0,0,0,0,0,0,0>>,     <<1,13,11,7,1,0,6,4>>,   <<3,11,6,14,2,0,12,8>>,
     <<2,6,13,9,3,0,10,12>>,  <<7,6,13,12,4,1,9,0>>,   <<6,11,6,11,5,1,15,4>>,
     <<4,13,11,2,6,1,5,8>>,   <<5,0,0,5,7,1,3,12>>,    <<14,13,11,8,8,3,2,0>>,
     <<15,0,0,15,9,3,4,4>>,   <<13,6,13,6,10,3,14,8>>, <<12,11,6,1,11,3,8,12>>,
     <<9,11,6,4,12,2,11,0>>,  <<8,6,13,3,13,2,13,4>>,  <<10,0,0,10,14,2,7,8>>,
     <<11,13,11,13,15,2,1,12>> >>

CrcNibble(crc) == WordXor(s_crc32tab[crc[8] + 1], WordShr4(crc))

CrcByte(crc, b) ==
  CrcNibble(CrcNibble([crc EXCEPT ![7] = NibXor(crc[7], b \div 16),
                                  ![8] = NibXor(crc[8], b % 16)]))

RECURSIVE CrcBytes(_, _)
CrcBytes(crc, s) ==
  IF s = <<>> THEN crc ELSE CrcBytes(CrcByte(crc, Head(s)), Tail(s))

\* cs_crc32(crc, data, len)
cs_crc32(crc, s) == WordNot(CrcBytes(WordNot(crc), s))

(***************************************************************************)
(* sprintf("%08x") and sscanf("%x").                                       *)
(***************************************************************************)
HexChar(n) == IF n < 10 THEN 48 + n ELSE 87 + n

\* The digits written least significant first.
Sprintf08x_Reversed(w) ==
  <<HexChar(w[8]), HexChar(w[7]), HexChar(w[6]), HexChar(w[5]),
    HexChar(w[4]), HexChar(w[3]), HexChar(w[2]), HexChar(w[1])>>

\* sprintf(crc_hex, "%08x", w): 8 lowercase hexadecimal digits, zero padded.
Sprintf08x(w) ==
  <<HexChar(w[1]), HexChar(w[2]), HexChar(w[3]), HexChar(w[4]),
    HexChar(w[5]), HexChar(w[6]), HexChar(w[7]), HexChar(w[8])>>

IsSpace(c) == c = 32 \/ (c >= 9 /\ c <= 13)
IsHexDigit(c) ==
  \/ (c >= 48 /\ c <= 57)
  \/ (c >= 65 /\ c <= 70)
  \/ (c >= 97 /\ c <= 102)
HexVal(c) == IF c <= 57 THEN c - 48 ELSE IF c <= 70 THEN c - 55 ELSE c - 87

RECURSIVE SkipSpace(_)
SkipSpace(s) == IF s # <<>> /\ IsSpace(Head(s)) THEN SkipSpace(Tail(s)) ELSE s

RECURSIVE HexDigits(_)
HexDigits(s) ==
  IF s # <<>> /\ IsHexDigit(Head(s))
  THEN <<HexVal(Head(s))>> \o HexDigits(Tail(s))
  ELSE <<>>

RECURSIVE StripZeros(_)
StripZeros(d) == IF d # <<>> /\ Head(d) = 0 THEN StripZeros(Tail(d)) ELSE d

RECURSIVE WordInc(_, _)
WordInc(w, i) ==
  IF i = 0 THEN w
  ELSE IF w[i] < 15 THEN [w EXCEPT ![i] = w[i] + 1]
  ELSE WordInc([w EXCEPT ![i] = 0], i - 1)

WordNeg(w) == WordInc(WordNot(w), 8)

\* The value of a run of hexadecimal digits as a 32-bit word.  A value that does
\* not fit is undefined behaviour of the conversion: the C library either keeps
\* the low 32 bits ("wrap") or saturates ("sat").
DigitsWord(d, ovf) ==
  LET s == StripZeros(d)
      n == Len(s)
  IN  IF n <= 8 THEN SubSeq(Zero32, 1, 8 - n) \o s
      ELSE IF ovf = "wrap" THEN SubSeq(s, n - 7, n)
      ELSE Ones32

\* sscanf(meta.p, "%x", &expected_crc): n is its return value, val the word stored.
SscanfHex(meta, ovf) ==
  LET s0 == SkipSpace(meta)
      neg == s0 # <<>> /\ Head(s0) = 45
      s1 == IF s0 # <<>> /\ (Head(s0) = 43 \/ Head(s0) = 45) THEN Tail(s0) ELSE s0
      pfx == /\ Len(s1) >= 3
             /\ s1[1] = 48
             /\ (s1[2] = 120 \/ s1[2] = 88)
             /\ IsHexDigit(s1[3])
      s2 == IF pfx THEN Tail(Tail(s1)) ELSE s1
      d == HexDigits(s2)
      w == DigitsWord(d, ovf)
  IN  IF d = <<>> THEN [n |-> 0, val |-> Zero32]
      ELSE [n |-> 1, val |-> IF neg THEN WordNeg(w) ELSE w]

OvfModes == {"wrap", "sat"}

(***************************************************************************)
(* Frames.                                                                 *)
(***************************************************************************)
\* c_strnstr(buf, FRAME_DELIMETER, len): the offset of the first occurrence, -1 if none.
RECURSIVE StrnstrFrom(_, _)
StrnstrFrom(buf, i) ==
  IF i + FRAME_DELIMETER_LEN > Len(buf) THEN -1
  ELSE IF SubSeq(buf, i + 1, i + FRAME_DELIMETER_LEN) = FRAME_DELIMETER THEN i
  ELSE StrnstrFrom(buf, i + 1)

c_strnstr(buf) == StrnstrFrom(buf, 0)

\* No backward scan: f keeps its length.
MetaSplit_KeepAll(f, n) == n

\* The backward scan for '}': the length f keeps, 0 when there is no '}'.
RECURSIVE MetaSplit(_, _)
MetaSplit(f, n) ==
  IF n = 0 THEN 0
  ELSE IF f[n] = RBRACE THEN n
  ELSE MetaSplit(f, n - 1)

\* The handshake reply the dispatcher appends to send_mbuf.
HandshakeReply == FRAME_DELIMETER \o EOF_CHAR \o FRAME_DELIMETER

\* The bytes send_frame appends to send_mbuf for payload f.
EncodeFrame(f) ==
  FRAME_DELIMETER \o f \o Sprintf08x(cs_crc32(Zero32, f)) \o FRAME_DELIMETER

(***************************************************************************)
(* The inputs: what the peer puts on the line and what the RPC layer sends.*)
(***************************************************************************)
\* "{}", "g", "0", "1"
MSG == <<123, RBRACE>>
G1 == <<103>>
D0 == <<48>>
D1 == <<49>>
BAD_CRC == D0 \o D0 \o D0 \o D0 \o D0 \o D0 \o D0 \o D0
G4 == G1 \o G1 \o G1 \o G1
GARBAGE == G4 \o G4 \o G4 \o G4
Hex(f) == Sprintf08x(cs_crc32(Zero32, f))
Framed(body) == FRAME_DELIMETER \o body \o FRAME_DELIMETER

\* The payloads whose encoding is fed back into the receive path.
Payloads == {MSG, <<>>, G1, <<RBRACE>> \o G1}
\* The payloads the RPC layer hands to send_frame.
SendPayloads == {MSG}

Scripts ==
  {EncodeFrame(p) : p \in Payloads} \cup
  { \* handshake, then a frame with a wrong checksum, then one with the right one
    HandshakeReply \o Framed(MSG \o BAD_CRC) \o EncodeFrame(MSG),
    \* three handshakes in a row
    HandshakeReply \o HandshakeReply \o HandshakeReply,
    \* frames without checksum: bare message, short metadata, no '}' at all
    Framed(MSG) \o G1 \o <<RBRACE>> \o G1 \o G1 \o FRAME_DELIMETER
       \o G1 \o G1 \o FRAME_DELIMETER,
    \* metadata that is no hexadecimal number, then metadata of 9 digits
    Framed(MSG \o G4 \o G4) \o <<RBRACE>> \o D0 \o Hex(<<RBRACE>>)
       \o FRAME_DELIMETER \o <<RBRACE>> \o D1 \o Hex(<<RBRACE>>) \o FRAME_DELIMETER,
    \* a frame longer than the receive buffer may grow, closed by its delimiter
    HandshakeReply \o Framed(GARBAGE \o MSG),
    \* a frame without checksum and no handshake before it
    Framed(G4 \o MSG)
  }

(***************************************************************************)
(* The dispatcher.                                                         *)
(***************************************************************************)
Min(a, b) == IF a < b THEN a ELSE b

\* ch->ev_handler(ch, type, arg): frame is the ordinal, within the dispatcher run,
\* of the extracted frame that raised the event (0: none), msg the mg_str passed.
Event(type, frame, msg) == [type |-> type, frame |-> frame, msg |-> msg]

\* A handshake answered only when it opens the channel.
HandleHandshake_ReplyOnce(c, f) ==
  [c EXCEPT
     !.waiting = FALSE,
     !.connected = TRUE,
     !.events = IF c.connected THEN @ ELSE Append(@, Event("OPEN", Len(c.frames) + 1, <<>>)),
     !.send = IF c.connected THEN @ ELSE @ \o HandshakeReply,
     !.sending = IF c.connected THEN @ ELSE TRUE,
     !.sendq = IF c.connected THEN @
               ELSE Append(@, [kind |-> "handshake", len |-> Len(HandshakeReply)]),
     !.frames = Append(@, [kind |-> "handshake", f |-> f, msg |-> <<>>, meta |-> <<>>,
                           checked |-> FALSE, delivered |-> FALSE,
                           conn |-> c.connected])]

\* A handshake answered with a frame that carries a checksum, as send_frame's do.
HandleHandshake_Checksummed(c, f) ==
  [c EXCEPT
     !.waiting = FALSE,
     !.connected = TRUE,
     !.events = IF c.connected THEN @ ELSE Append(@, Event("OPEN", Len(c.frames) + 1, <<>>)),
     !.send = @ \o EncodeFrame(EOF_CHAR),
     !.sending = TRUE,
     !.sendq = Append(@, [kind |-> "handshake", len |-> Len(EncodeFrame(EOF_CHAR))]),
     !.frames = Append(@, [kind |-> "handshake", f |-> f, msg |-> <<>>, meta |-> <<>>,
                           checked |-> FALSE, delivered |-> FALSE,
                           conn |-> c.connected])]

\* Lines 89-98: a frame that is EOF_CHAR by itself.
HandleHandshake(c, f) ==
  [c EXCEPT
     !.waiting = FALSE,
     !.connected = TRUE,
     !.events = IF c.connected THEN @ ELSE Append(@, Event("OPEN", Len(c.frames) + 1, <<>>)),
     !.send = @ \o HandshakeReply,
     !.sending = TRUE,
     !.sendq = Append(@, [kind |-> "handshake", len |-> Len(HandshakeReply)]),
     !.frames = Append(@, [kind |-> "handshake", f |-> f, msg |-> <<>>, meta |-> <<>>,
                           checked |-> FALSE, delivered |-> FALSE,
                           conn |-> c.connected])]

\* The metadata only parsed, never compared.
Corrupted_ParseOnly(msg, meta, ovf) == SscanfHex(meta, ovf).n # 1

\* Metadata that is no number let through.
Corrupted_Lenient(msg, meta, ovf) ==
  LET sc == SscanfHex(meta, ovf)
  IN  sc.n = 1 /\ cs_crc32(Zero32, msg) # sc.val

\* Lines 119-120: whether the frame is taken for corrupted.
Corrupted(msg, meta, ovf) ==
  LET sc == SscanfHex(meta, ovf)
  IN  sc.n # 1 \/ cs_crc32(Zero32, msg) # sc.val

\* Any metadata at all taken for a checksum.
HasChecksum_Any(meta) == Len(meta) >= 1

\* Line 114: whether the metadata is long enough to be checked.
HasChecksum(meta) == Len(meta) >= META_MIN_LEN

\* Lines 100-130: any other frame.
HandleData(c, f, ovf) ==
  LET split == MetaSplit(f, Len(f))
      msg0 == SubSeq(f, 1, split)
      meta == SubSeq(f, split + 1, Len(f))
      bad == HasChecksum(meta) /\ Corrupted(msg0, meta, ovf)
      msg == IF bad THEN <<>> ELSE msg0
      deliver == Len(msg) > 0
  IN  [c EXCEPT
         !.diags = IF bad THEN Append(@, "warn") ELSE @,
         !.events = IF deliver
                    THEN Append(@, Event("FRAME_RECD", Len(c.frames) + 1, msg))
                    ELSE @,
         !.frames = Append(@, [kind |-> "data", f |-> f, msg |-> msg0, meta |-> meta,
                               checked |-> HasChecksum(meta), delivered |-> deliver,
                               conn |-> c.connected])]

\* Lines 81-132: one frame of flen > 0 bytes.
HandleFrame(c, f, ovf) ==
  IF f = EOF_CHAR THEN HandleHandshake(c, f) ELSE HandleData(c, f, ovf)

\* The frame removed but for the last byte of its delimiter.
Removed_OneLess(buf, n) == SubSeq(buf, n, Len(buf))

\* mbuf_remove(urxb, n): the buffer without its first n bytes.
Removed(buf, n) == SubSeq(buf, n + 1, Len(buf))

\* Lines 79-134: the extraction loop.
RECURSIVE ExtractFrames(_, _)
ExtractFrames(c, ovf) ==
  LET flen == c_strnstr(c.recv)
  IN  IF flen = -1 THEN c
      ELSE LET f == SubSeq(c.recv, 1, flen)
               c1 == IF flen # 0 THEN HandleFrame(c, f, ovf)
                     ELSE [c EXCEPT !.frames =
                             Append(@, [kind |-> "empty", f |-> f, msg |-> <<>>,
                                        meta |-> <<>>, checked |-> FALSE,
                                        delivered |-> FALSE, conn |-> c.connected])]
               rest == Removed(c.recv, flen + FRAME_DELIMETER_LEN)
           IN  ExtractFrames([c1 EXCEPT !.recv = rest], ovf)

\* The receive buffer as the extraction loop leaves it, noted for the record.
Extracted(c) == [c EXCEPT !.xrecv = c.recv]

\* The threshold taken one delimiter too high.
TooBig_OneMore(len) == len > MaxFrameSize + 3 * FRAME_DELIMETER_LEN

\* Line 135: the oversize test.
TooBig(len) == len > MaxFrameSize + 2 * FRAME_DELIMETER_LEN

\* Lines 135-139: an oversized receive buffer is dropped.
DropOversize(c) ==
  IF TooBig(Len(c.recv))
  THEN [c EXCEPT !.diags = Append(@, "error"), !.recv = <<>>]
  ELSE c

\* The tail kept whether or not the channel waits for the start frame.
TrimWaiting_Always(c) ==
  IF Len(c.recv) > FRAME_DELIMETER_LEN
  THEN [c EXCEPT !.recv = SubSeq(@, Len(@) - FRAME_DELIMETER_LEN + 1, Len(@))]
  ELSE c

\* Lines 140-142: while waiting for the start frame only the tail is kept.
TrimWaiting(c) ==
  IF c.waiting /\ Len(c.recv) > FRAME_DELIMETER_LEN
  THEN [c EXCEPT !.recv = SubSeq(@, Len(@) - FRAME_DELIMETER_LEN + 1, Len(@))]
  ELSE c

\* Lines 73-144: the receive half, run when rx_av > 0.
RxPhase(c, rx, ovf) ==
  IF Len(rx) > 0
  THEN TrimWaiting(DropOversize(Extracted(ExtractFrames([c EXCEPT !.recv = @ \o rx], ovf))))
  ELSE c

\* The frames queued in send_mbuf after n more bytes were written.
RECURSIVE Consume(_, _)
Consume(q, n) ==
  IF n = 0 \/ q = <<>> THEN q
  ELSE IF Head(q).len <= n THEN Consume(Tail(q), n - Head(q).len)
  ELSE <<[Head(q) EXCEPT !.len = @ - n]>> \o Tail(q)

\* The send buffer drained without a word to the RPC layer.
Drained_Silent(c) ==
  [c EXCEPT
     !.sending = FALSE,
     !.resume_uart = FALSE,
     !.resumes = IF c.resume_uart THEN @ + 1 ELSE @,
     !.sending_user_frame = FALSE]

\* Lines 150-162: the send buffer has drained.
Drained(c) ==
  [c EXCEPT
     !.sending = FALSE,
     !.resume_uart = FALSE,
     !.resumes = IF c.resume_uart THEN @ + 1 ELSE @,
     !.sending_user_frame = FALSE,
     !.events = IF c.sending_user_frame
                THEN Append(@, Event("FRAME_SENT", 0, <<>>))
                ELSE @]

\* Lines 145-163: the transmit half.
TxPhase(c, tx_av) ==
  IF c.sending /\ tx_av > 0
  THEN LET len == Min(Len(c.send), tx_av)
           c1 == [c EXCEPT !.send = SubSeq(@, len + 1, Len(@)),
                           !.sendq = Consume(@, len)]
       IN  IF Len(c1.send) = 0 THEN Drained(c1) ELSE c1
  ELSE c

\* The write capacities tried.
TxAvails == {0, TxSmall, TxLarge}

\* The channel as the dispatcher sees it on entry.
Chan ==
  [recv |-> recv_mbuf, send |-> send_mbuf, waiting |-> waiting_for_start_frame,
   connected |-> connected, sending |-> sending,
   sending_user_frame |-> sending_user_frame, resume_uart |-> resume_uart,
   events |-> <<>>, diags |-> <<>>, frames |-> <<>>, sendq |-> sendq, resumes |-> 0,
   xrecv |-> recv_mbuf]

\* What is noted of the channel between the receive half and the transmit half;
\* first: whether the run read the first bytes of the stream.
Mid(c, first) ==
  [first |-> first, recv |-> c.xrecv, send |-> c.send, sending |-> c.sending,
   connected |-> c.connected]

\* mg_rpc_channel_uart_dispatcher.  The driver has n bytes to read (rx_av), n one
\* of N, and room to write tx_av bytes, tx_av one of T.
DispatcherRun(N, T) ==
  /\ dispatcher
  /\ \E n \in N :
     \E c1 \in {RxPhase(Chan, SubSeq(script, pos + 1, pos + n), ovf) : ovf \in OvfModes} :
     \E tx_av \in T :
     \E c2 \in {TxPhase(c1, tx_av)} :
         /\ recv_mbuf' = c2.recv
         /\ send_mbuf' = c2.send
         /\ waiting_for_start_frame' = c2.waiting
         /\ connected' = c2.connected
         /\ sending' = c2.sending
         /\ sending_user_frame' = c2.sending_user_frame
         /\ resume_uart' = c2.resume_uart
         /\ suspended' = suspended - c2.resumes
         /\ events' = c2.events
         /\ diags' = c2.diags
         /\ frames' = c2.frames
         /\ sendq' = c2.sendq
         /\ mid' = Mid(c1, pos = 0 /\ n > 0)
         /\ resumes' = c2.resumes
         /\ pos' = pos + n
  /\ op' = "dispatch"
  /\ ret' = FALSE
  /\ UNCHANGED <<wait_for_start_frame, dispatcher, script>>

\* A dispatcher run: the driver has read any part of what the peer has sent.
Dispatcher == DispatcherRun(0..(Len(script) - pos), TxAvails)

(***************************************************************************)
(* The channel operations.                                                 *)
(***************************************************************************)
\* Outside a dispatcher run nothing is noted.
NoMid == [first |-> FALSE, recv |-> <<>>, send |-> <<>>, sending |-> FALSE, connected |-> FALSE]

\* mg_rpc_channel_uart_ch_connect
ChConnect ==
  /\ waiting_for_start_frame' =
        IF ~connected THEN wait_for_start_frame ELSE waiting_for_start_frame
  /\ dispatcher' = IF ~connected THEN TRUE ELSE dispatcher
  /\ op' = "connect"
  /\ ret' = FALSE
  /\ events' = <<>>
  /\ diags' = <<>>
  /\ frames' = <<>>
  /\ mid' = NoMid
  /\ resumes' = 0
  /\ UNCHANGED <<wait_for_start_frame, connected, sending, sending_user_frame,
                 resume_uart, recv_mbuf, send_mbuf, suspended, script, pos, sendq>>

\* send_frame refusing only a disconnected channel.
SendRefused_NotBusy == ~connected

\* Line 180: when send_frame refuses.
SendRefused == ~connected \/ sending

\* mg_rpc_channel_uart_send_frame; console: whether stdout or stderr is on this UART.
SendFrame(f, console) ==
  /\ op' = "send"
  /\ events' = <<>>
  /\ diags' = <<>>
  /\ frames' = <<>>
  /\ mid' = NoMid
  /\ resumes' = 0
  /\ IF SendRefused
     THEN /\ ret' = FALSE
          /\ UNCHANGED <<send_mbuf, sending, sending_user_frame, resume_uart,
                         suspended, sendq>>
     ELSE /\ send_mbuf' = send_mbuf \o EncodeFrame(f)
          /\ sendq' = Append(sendq, [kind |-> "user", len |-> Len(EncodeFrame(f))])
          /\ sending' = TRUE
          /\ sending_user_frame' = TRUE
          /\ resume_uart' = console
          /\ suspended' = IF console THEN suspended + 1 ELSE suspended
          /\ ret' = TRUE
  /\ UNCHANGED <<wait_for_start_frame, waiting_for_start_frame, connected,
                 recv_mbuf, dispatcher, script, pos>>

\* mg_rpc_channel_uart_ch_close
ChClose ==
  /\ resume_uart => suspended > -MaxUnderflow
  /\ dispatcher' = FALSE
  /\ connected' = FALSE
  /\ sending' = FALSE
  /\ sending_user_frame' = FALSE
  /\ resumes' = IF resume_uart THEN 1 ELSE 0
  /\ suspended' = IF resume_uart THEN suspended - 1 ELSE suspended
  /\ events' = <<Event("CLOSED", 0, <<>>)>>
  /\ op' = "close"
  /\ ret' = FALSE
  /\ diags' = <<>>
  /\ frames' = <<>>
  /\ mid' = NoMid
  /\ UNCHANGED <<wait_for_start_frame, waiting_for_start_frame, resume_uart,
                 recv_mbuf, send_mbuf, script, pos, sendq>>

(***************************************************************************)
(* The specification.                                                      *)
(***************************************************************************)
\* mg_rpc_channel_uart: the channel as constructed, the peer about to send one
\* of the streams S.
Constructed(S) ==
  /\ wait_for_start_frame \in BOOLEAN
  /\ waiting_for_start_frame = FALSE
  /\ connected = FALSE
  /\ sending = FALSE
  /\ sending_user_frame = FALSE
  /\ resume_uart = FALSE
  /\ recv_mbuf = <<>>
  /\ send_mbuf = <<>>
  /\ dispatcher = FALSE
  /\ suspended = 0
  /\ script \in S
  /\ pos = 0
  /\ op = "init"
  /\ ret = FALSE
  /\ events = <<>>
  /\ diags = <<>>
  /\ frames = <<>>
  /\ sendq = <<>>
  /\ mid = NoMid
  /\ resumes = 0

Init == Constructed(Scripts)

Next ==
  \/ Dispatcher
  \/ ChConnect
  \/ \E f \in SendPayloads, console \in BOOLEAN : SendFrame(f, console)
  \/ ChClose

Spec == Init /\ [][Next]_vars

(***************************************************************************)
(* The specification with a peer that keeps sending and a driver that      *)
(* keeps calling the dispatcher while there is something to write.         *)
(***************************************************************************)
\* The stream of a peer that asks for readiness, twice (line 52).
ScriptsLive == {EOF_CHAR \o FRAME_DELIMETER \o EOF_CHAR \o FRAME_DELIMETER}

InitLive == Constructed(ScriptsLive)

\* The peer, having sent its stream, sends it once more ("mgos sends
\* continuosly", lines 52-53).
PeerAgain ==
  /\ pos = Len(script)
  /\ Len(send_mbuf) <= MaxBacklog
  /\ pos' = 0
  /\ op' = "peer"
  /\ ret' = FALSE
  /\ events' = <<>>
  /\ diags' = <<>>
  /\ frames' = <<>>
  /\ mid' = NoMid
  /\ resumes' = 0
  /\ UNCHANGED <<wait_for_start_frame, waiting_for_start_frame, connected, sending,
                 sending_user_frame, resume_uart, recv_mbuf, send_mbuf, dispatcher,
                 suspended, script, sendq>>

\* A dispatcher run for which the driver has room to write.
DispatcherRoom == DispatcherRun(0..(Len(script) - pos), TxAvails \ {0})

\* A dispatcher run with nothing to read in which mgos_uart_write took at least
\* one byte (lines 146-149).
Wrote ==
  /\ DispatcherRun({0}, TxAvails \ {0})
  /\ Len(send_mbuf') < Len(send_mbuf)

NextLive ==
  \/ DispatcherRoom
  \/ ChConnect
  \/ \E f \in SendPayloads, console \in BOOLEAN : SendFrame(f, console)
  \/ ChClose
  \/ PeerAgain

\* While a send is in flight the driver has the dispatcher scheduled (line 198)
\* and calls it again whenever there is room to write.
SpecLive == InitLive /\ [][NextLive]_vars /\ WF_vars(Wrote)

(***************************************************************************)
(* Properties.                                                             *)
(***************************************************************************)
\* The positions in a frame record of the frames of one kind.
FramesOfKind(fs, kind) == {i \in DOMAIN fs : fs[i].kind = kind}

\* The positions in an event record of the events of one type.
EventsOfType(evs, type) == {j \in DOMAIN evs : evs[j].type = type}

\* The least element of a non-empty set of numbers.
Least(S) == CHOOSE x \in S : \A y \in S : x <= y

\* n handshake replies in a row.
RECURSIVE Replies(_)
Replies(n) == IF n = 0 THEN <<>> ELSE HandshakeReply \o Replies(n - 1)

\* C1: send_frame called while the channel is not connected or a send is in
\* flight returns false and changes nothing: the send buffer, the receive
\* buffer, the six flags and the console suspend depth are as before, and no
\* event is raised.
C1_RefusedSendChangesNothing ==
  [][(op' = "send" /\ (~connected \/ sending)) =>
        /\ ret' = FALSE
        /\ send_mbuf' = send_mbuf
        /\ recv_mbuf' = recv_mbuf
        /\ flags' = flags
        /\ suspended' = suspended
        /\ events' = <<>>]_vars

\* C1, witness: a send refused while an earlier frame is still in the send buffer.
C1_Witness ==
  /\ op = "send"
  /\ ret = FALSE
  /\ connected
  /\ sending
  /\ sending_user_frame
  /\ send_mbuf # <<>>

\* C2: in a dispatcher run that extracts handshake frames, exactly one OPEN event
\* is raised if the channel was not connected, by the first of them, and none if
\* it was connected; every handshake frame appends one handshake reply to the
\* send buffer and leaves sending set.
C2_HandshakeIdempotence ==
  [][op' = "dispatch" =>
        LET hs == FramesOfKind(frames', "handshake")
            opens == EventsOfType(events', "OPEN")
        IN  /\ Cardinality(opens) = IF ~connected /\ hs # {} THEN 1 ELSE 0
            /\ \A j \in opens : events'[j].frame = Least(hs)
            /\ mid'.send = send_mbuf \o Replies(Cardinality(hs))
            /\ hs # {} => mid'.sending]_vars

\* C2, witness: a run that extracted several handshake frames, the first of which
\* opened the channel.
C2_Witness ==
  /\ op = "dispatch"
  /\ Cardinality(FramesOfKind(frames, "handshake")) >= 2
  /\ Cardinality(EventsOfType(events, "OPEN")) = 1
  /\ \E i \in FramesOfKind(frames, "handshake") : frames[i].conn

\* The position of the last '}' of f, 0 when it has none.
LastBrace(f) ==
  IF \E k \in DOMAIN f : f[k] = RBRACE
  THEN CHOOSE k \in DOMAIN f : f[k] = RBRACE /\ \A j \in DOMAIN f : j > k => f[j] # RBRACE
  ELSE 0

\* Whether the last 8 bytes of f are hexadecimal digits.
EndsIn8Hex(f) ==
  /\ Len(f) >= 8
  /\ \A k \in (Len(f) - 7)..Len(f) : IsHexDigit(f[k])

\* Whether the last dispatcher run raised FRAME_RECD for its i-th frame, passing m.
Delivered(i, m) ==
  \E j \in DOMAIN events :
     events[j].type = "FRAME_RECD" /\ events[j].frame = i /\ events[j].msg = m

\* Whether the last dispatcher run raised FRAME_RECD for its i-th frame.
DeliveredAny(i) ==
  \E j \in DOMAIN events : events[j].type = "FRAME_RECD" /\ events[j].frame = i

\* C3 as stated: a data frame is its message followed by 8 hexadecimal digits;
\* it is delivered, with exactly the message, if and only if the digits are the
\* CRC-32 of the message.
C3_Original ==
  \A i \in FramesOfKind(frames, "data") :
     LET f == frames[i].f
         m == SubSeq(f, 1, Len(f) - 8)
         h == SubSeq(f, Len(f) - 7, Len(f))
     IN  EndsIn8Hex(f) =>
           IF HexDigits(h) = cs_crc32(Zero32, m) THEN Delivered(i, m) ELSE ~DeliveredAny(i)

\* C3, amended: a data frame that is a message ending in '}' followed by exactly
\* 8 hexadecimal digits is delivered, with exactly the message, if the digits
\* are the CRC-32 of the message, and is not delivered if they are not.
C3_ChecksumEnforcement ==
  \A i \in FramesOfKind(frames, "data") :
     LET f == frames[i].f
         m == SubSeq(f, 1, Len(f) - 8)
         h == SubSeq(f, Len(f) - 7, Len(f))
     IN  (EndsIn8Hex(f) /\ Len(f) >= 9 /\ f[Len(f) - 8] = RBRACE) =>
           IF HexDigits(h) = cs_crc32(Zero32, m) THEN Delivered(i, m) ELSE ~DeliveredAny(i)

\* C3, witness: one dispatcher run that dropped a frame with a wrong checksum and
\* delivered one with the right checksum.
C3_Witness ==
  /\ op = "dispatch"
  /\ \E i \in FramesOfKind(frames, "data") :
        /\ frames[i].f = MSG \o BAD_CRC
        /\ ~DeliveredAny(i)
  /\ \E i \in FramesOfKind(frames, "data") :
        /\ frames[i].f = MSG \o Hex(MSG)
        /\ Delivered(i, MSG)

\* The messages of the FRAME_RECD events of the last operation, in order.
Received == SelectSeq(events, LAMBDA e : e.type = "FRAME_RECD")

\* Whether the last dispatcher run read the whole of stream s into an empty
\* receive buffer.
FedAtOnce(s) == op = "dispatch" /\ script = s /\ mid.first /\ pos = Len(s)

\* C4 as stated: for every payload P the bytes send_frame queues for P, fed into
\* the receive path, yield exactly one FRAME_RECD event, whose message is P.
C4_Original ==
  \A p \in Payloads :
     FedAtOnce(EncodeFrame(p)) =>
        Len(Received) = 1 /\ Received[1].msg = p

\* C4, amended: for every payload P that ends in '}' and does not contain the
\* delimiter, the bytes send_frame queues for P, read by one dispatcher run into
\* an empty receive buffer, yield exactly one FRAME_RECD event, whose message is P.
C4_RoundTrip ==
  \A p \in Payloads :
     (/\ FedAtOnce(EncodeFrame(p))
      /\ p # <<>>
      /\ p[Len(p)] = RBRACE
      /\ c_strnstr(p) = -1) =>
        Len(Received) = 1 /\ Received[1].msg = p

\* C4, witness: the encoding of "{}" read at once and delivered.
C4_Witness ==
  /\ FedAtOnce(EncodeFrame(MSG))
  /\ Len(Received) = 1

\* C5 as stated: a frame without metadata is delivered without a checksum check
\* when it ends in '}', when it has no '}' at all, and when fewer than 8 bytes
\* follow its last '}'.
C5_Original ==
  \A i \in FramesOfKind(frames, "data") :
     LET f == frames[i].f
         k == LastBrace(f)
     IN  (k = 0 \/ Len(f) - k < 8) => DeliveredAny(i)

\* C5, amended: a frame that ends in '}' or has fewer than 8 bytes after its last
\* '}' is delivered without a checksum check, and the message delivered is the
\* frame up to and including its last '}'; a frame with no '}' at all is never
\* delivered.
C5_LegacyTolerance ==
  \A i \in FramesOfKind(frames, "data") :
     LET f == frames[i].f
         k == LastBrace(f)
     IN  /\ (k > 0 /\ Len(f) - k < 8) =>
               Delivered(i, SubSeq(f, 1, k)) /\ ~frames[i].checked
         /\ k = 0 => ~DeliveredAny(i)

\* C5, witness: one dispatcher run that met a frame ending in '}', a frame with
\* short metadata and a frame without '}'.
C5_Witness ==
  /\ op = "dispatch"
  /\ \E i \in FramesOfKind(frames, "data") :
        LastBrace(frames[i].f) = Len(frames[i].f) /\ DeliveredAny(i)
  /\ \E i \in FramesOfKind(frames, "data") :
        /\ LastBrace(frames[i].f) > 0
        /\ LastBrace(frames[i].f) < Len(frames[i].f)
        /\ Len(frames[i].meta) < 8
        /\ DeliveredAny(i)
  /\ \E i \in FramesOfKind(frames, "data") :
        LastBrace(frames[i].f) = 0 /\ ~DeliveredAny(i)

\* C6 as stated, its safety half: the console is never resumed more often than
\* it was suspended (every suspending send is followed by at most one resume).
C6_Original == suspended >= 0

\* C7 as stated: on a channel configured to wait for the start frame no
\* FRAME_RECD event is raised while the channel is not connected.
C7_Original ==
  wait_for_start_frame =>
     \A i \in FramesOfKind(frames, "data") : DeliveredAny(i) => frames[i].conn

\* The frames queued in the send buffer that are user frames.
UserFrames == {i \in DOMAIN sendq : sendq[i].kind = "user"}

\* The bytes the queued frames still have to write.
RECURSIVE QueuedLen(_)
QueuedLen(q) == IF q = <<>> THEN 0 ELSE Head(q).len + QueuedLen(Tail(q))

\* C8 as stated: the send buffer holds the unwritten rest of at most one frame.
C8_Original == Len(sendq) <= 1

\* C8, amended: the send buffer holds the unwritten rest of at most one user
\* frame; handshake replies are appended to it whatever it holds.
C8_OneUserFrame ==
  /\ Cardinality(UserFrames) <= 1
  /\ QueuedLen(sendq) = Len(send_mbuf)
  /\ \A i \in DOMAIN sendq : sendq[i].len > 0

\* C8, witness: a user frame in flight with handshake replies queued behind it.
C8_Witness ==
  /\ sending_user_frame
  /\ Len(sendq) >= 3
  /\ sendq[1].kind = "user"
  /\ sendq[2].kind = "handshake"

\* The frames of a byte stream: what lies between its delimiters.
RECURSIVE Segments(_)
Segments(s) ==
  LET k == c_strnstr(s)
  IN  IF k = -1 THEN {}
      ELSE {SubSeq(s, 1, k)} \cup Segments(SubSeq(s, k + FRAME_DELIMETER_LEN + 1, Len(s)))

\* C9 as stated: every frame delivered is a whole frame of the peer's stream.
C9_Original ==
  \A i \in FramesOfKind(frames, "data") :
     DeliveredAny(i) => frames[i].f \in Segments(script)

\* The number of error diagnostics of the last operation.
Errors == Cardinality({j \in DOMAIN diags : diags[j] = "error"})

\* C10: the receive buffer never holds more than max_frame_size + 6 bytes between
\* operations; a dispatcher run whose extraction loop leaves more than that
\* clears the buffer and logs exactly one error, the bytes dropped hold no frame,
\* and connected is as the extraction loop left it; a run that leaves less logs
\* no error.
C10_OversizeProtection ==
  /\ Len(recv_mbuf) <= MaxFrameSize + 6
  /\ op = "dispatch" =>
        IF Len(mid.recv) > MaxFrameSize + 6
        THEN /\ recv_mbuf = <<>>
             /\ Errors = 1
             /\ c_strnstr(mid.recv) = -1
             /\ connected = mid.connected
        ELSE Errors = 0

\* C10, witness: an oversized buffer dropped on a connected channel.
C10_Witness ==
  /\ op = "dispatch"
  /\ Len(mid.recv) > MaxFrameSize + 6
  /\ Errors = 1
  /\ connected
  /\ recv_mbuf = <<>>

\* The number of FRAME_SENT events of the last operation.
FramesSent == Cardinality(EventsOfType(events, "FRAME_SENT"))

\* The last dispatcher run emptied the send buffer and raised FRAME_SENT once.
SentNow ==
  /\ op = "dispatch"
  /\ send_mbuf = <<>>
  /\ ~sending
  /\ ~sending_user_frame
  /\ FramesSent = 1

\* FRAME_SENT is raised once by the dispatcher run that empties the send buffer
\* while a user frame is in flight, and by no other operation.
SentOnlyWhenDrained ==
  [][/\ op' = "dispatch" =>
          Cardinality(EventsOfType(events', "FRAME_SENT")) =
             IF sending_user_frame /\ send_mbuf' = <<>> THEN 1 ELSE 0
     /\ op' # "dispatch" => EventsOfType(events', "FRAME_SENT") = {}]_vars

\* C11 as stated: after a send_frame that returned true, if the dispatcher keeps
\* writing and close is not called, eventually the send buffer is empty, sending
\* and sending_user_frame are false and FRAME_SENT was raised once.
C11_Original ==
  (op = "send" /\ ret) ~> (SentNow \/ op = "close")

\* C11, amended: while a user frame is in flight and the dispatcher keeps
\* writing, eventually the send buffer is empty with sending and
\* sending_user_frame false and one FRAME_SENT raised, or close is called, or
\* one more handshake frame arrives, whose reply is queued behind the frame and
\* written before FRAME_SENT; FRAME_SENT is raised once, by the dispatcher run
\* that empties the send buffer, and never when no user frame is in flight.
C11_SendCompletion ==
  /\ sending_user_frame ~>
        \/ SentNow
        \/ op = "close"
        \/ (op = "dispatch" /\ FramesOfKind(frames, "handshake") # {})
  /\ SentOnlyWhenDrained

\* C11, witness: a user frame and a handshake reply queued behind it written
\* out, FRAME_SENT raised by the run that emptied the send buffer.
C11_Witness ==
  /\ SentNow
  /\ Len(mid.send) > Len(EncodeFrame(MSG))
  /\ mid.sending

\* C12 as stated: close called on a channel that close has just closed leaves
\* the flags and both buffers as they are, raises one CLOSED event and does not
\* resume the console again.
C12_Original ==
  [][(op = "close" /\ op' = "close") =>
        /\ flags' = flags
        /\ recv_mbuf' = recv_mbuf
        /\ send_mbuf' = send_mbuf
        /\ events' = <<Event("CLOSED", 0, <<>>)>>
        /\ resumes' = 0
        /\ suspended' = suspended]_vars

\* Whether the bytes after the last '}' of f are at least 8 and begin with a
\* byte that starts no hexadecimal number: no digit, no sign, no white space.
UnparseableMeta(f) ==
  LET k == LastBrace(f)
  IN  /\ k > 0
      /\ Len(f) - k >= 8
      /\ ~IsHexDigit(f[k + 1])
      /\ ~IsSpace(f[k + 1])
      /\ f[k + 1] \notin {43, 45}

\* The number of warnings of the last operation.
Warnings == Cardinality({j \in DOMAIN diags : diags[j] = "warn"})

\* C13 as stated: a frame whose metadata is at least 8 bytes long and does not
\* parse as a hexadecimal number is delivered, its message the frame up to its
\* last '}'.
C13_Original ==
  \A i \in FramesOfKind(frames, "data") :
     UnparseableMeta(frames[i].f) =>
        Delivered(i, SubSeq(frames[i].f, 1, LastBrace(frames[i].f)))

\* C13, amended: a frame whose metadata is at least 8 bytes long and does not
\* parse as a hexadecimal number is taken for corrupted: it raises no FRAME_RECD
\* event and a warning is logged.
C13_UnparseableDropped ==
  \A i \in FramesOfKind(frames, "data") :
     UnparseableMeta(frames[i].f) =>
        /\ ~DeliveredAny(i)
        /\ frames[i].checked
        /\ Warnings >= 1

\* C13, witness: a dispatcher run that extracted "{}gggggggg" and dropped it.
C13_Witness ==
  /\ op = "dispatch"
  /\ \E i \in FramesOfKind(frames, "data") :
        /\ frames[i].f = MSG \o G4 \o G4
        /\ UnparseableMeta(frames[i].f)
        /\ ~DeliveredAny(i)
  /\ Warnings >= 1

\* n times the bytes 0x22 0x22 0x22 0x04 0x22 0x22 0x22.
RECURSIVE WireReplies(_)
WireReplies(n) ==
  IF n = 0 THEN <<>> ELSE <<34, 34, 34, 4, 34, 34, 34>> \o WireReplies(n - 1)

\* C14 as stated, its length: every handshake frame extracted makes the send
\* buffer 5 bytes longer.
C14_Original ==
  [][op' = "dispatch" =>
        Len(mid'.send) =
           Len(send_mbuf) + 5 * Cardinality(FramesOfKind(frames', "handshake"))]_vars

\* C14, amended: every handshake frame extracted appends to the send buffer
\* exactly the delimiter, 0x04 and the delimiter, without checksum: 7 bytes.
C14_HandshakeReplyBytes ==
  [][op' = "dispatch" =>
        LET k == Cardinality(FramesOfKind(frames', "handshake"))
        IN  /\ mid'.send = send_mbuf \o WireReplies(k)
            /\ Len(mid'.send) = Len(send_mbuf) + 7 * k]_vars

\* C14, witness: a dispatcher run that queued a handshake reply behind bytes
\* still to be written.
C14_Witness ==
  /\ op = "dispatch"
  /\ FramesOfKind(frames, "handshake") # {}
  /\ Len(mid.send) > 7
  /\ SubSeq(mid.send, Len(mid.send) - 6, Len(mid.send)) = WireReplies(1)

\* C15 as stated: no FRAME_RECD event carries a message longer than
\* max_frame_size.
C15_Original ==
  \A j \in EventsOfType(events, "FRAME_RECD") : Len(events[j].msg) <= MaxFrameSize

\* The bytes the extraction loop removed for the frames fs: each frame and the
\* delimiter that closed it.
RECURSIVE Rejoined(_)
Rejoined(fs) ==
  IF fs = <<>> THEN <<>> ELSE Head(fs).f \o <<34, 34, 34>> \o Rejoined(Tail(fs))

\* C16: the extraction loop of a dispatcher run removes from the front of the
\* receive buffer, per iteration, the frame and its closing delimiter, at least
\* 3 bytes, whatever the frame is; it makes at most a third as many iterations
\* as the buffer has bytes and leaves a buffer without delimiter.
C16_ExtractionTerminates ==
  [][op' = "dispatch" =>
        LET buf == recv_mbuf \o SubSeq(script, pos + 1, pos')
        IN  /\ buf = Rejoined(frames') \o mid'.recv
            /\ 3 * Len(frames') <= Len(buf)
            /\ c_strnstr(mid'.recv) = -1]_vars

\* C16, witness: a run of at least four iterations, among them an empty frame
\* and a frame dropped for its checksum, that left bytes in the buffer.
C16_Witness ==
  /\ op = "dispatch"
  /\ Len(frames) >= 4
  /\ FramesOfKind(frames, "empty") # {}
  /\ \E i \in FramesOfKind(frames, "data") : frames[i].checked /\ ~DeliveredAny(i)
  /\ mid.recv # <<>>

\* C17 as stated: while waiting_for_start_frame is set the receive buffer holds
\* at most 3 bytes, the last ones the peer's stream has delivered.
C17_Original ==
  waiting_for_start_frame =>
     /\ Len(recv_mbuf) <= FRAME_DELIMETER_LEN
     /\ recv_mbuf = SubSeq(script, pos - Len(recv_mbuf) + 1, pos)

\* C18 as stated: between operations sending is set exactly when the send
\* buffer is not empty.
C18_Original == sending <=> send_mbuf # <<>>

\* C19: every message passed with a FRAME_RECD event is non-empty and ends in
\* '}'; a data frame without '}' raises no FRAME_RECD event, whatever its
\* length and whatever checksum it carries.
C19_MessageEndsInBrace ==
  /\ \A j \in EventsOfType(events, "FRAME_RECD") :
        /\ events[j].msg # <<>>
        /\ events[j].msg[Len(events[j].msg)] = RBRACE
  /\ \A i \in FramesOfKind(frames, "data") :
        (\A k \in DOMAIN frames[i].f : frames[i].f[k] # RBRACE) => ~DeliveredAny(i)

\* C19, witness: the frame "00000000", the checksum of the empty message and
\* nothing before it, passed the checksum test and was not delivered.
C19_Witness ==
  /\ op = "dispatch"
  /\ \E i \in FramesOfKind(frames, "data") :
        /\ frames[i].f = Hex(<<>>)
        /\ frames[i].checked
        /\ ~DeliveredAny(i)
  /\ Warnings = 0

\* The channel as constructed, as the dispatcher sees it.
Fresh ==
  [recv |-> <<>>, send |-> <<>>, waiting |-> FALSE, connected |-> FALSE,
   sending |-> FALSE, sending_user_frame |-> FALSE, resume_uart |-> FALSE,
   events |-> <<>>, diags |-> <<>>, frames |-> <<>>, sendq |-> <<>>, resumes |-> 0,
   xrecv |-> <<>>]

\* What the extraction loop makes of the stream s read at once by a channel as
\* constructed.
AtOnce(s, ovf) == ExtractFrames([Fresh EXCEPT !.recv = s], ovf)

\* AtOnce for every prefix of s from p bytes on, shortest first.
RECURSIVE Prefixes(_, _)
Prefixes(s, p) ==
  IF p > Len(s) THEN <<>>
  ELSE <<[wrap |-> AtOnce(SubSeq(s, 1, p), "wrap"), sat |-> AtOnce(SubSeq(s, 1, p), "sat")]>>
       \o Prefixes(s, p + 1)

\* Every stream with what its prefixes give when read at once.
AtOnceTable == {<<s, Prefixes(s, 0)>> : s \in Scripts}

\* What the first p bytes of the peer's stream give when read at once.
Ref(p, ovf) ==
  LET row == (CHOOSE t \in AtOnceTable : t[1] = script)[2][p + 1]
  IN  IF ovf = "wrap" THEN row.wrap ELSE row.sat

\* The streams no prefix of which leaves more than max_frame_size + 6 bytes
\* unconsumed.
FittingScripts ==
  {t[1] : t \in {u \in AtOnceTable :
                   \A k \in DOMAIN u[2] : Len(u[2][k].wrap.recv) <= MaxFrameSize + 6}}

\* A frame record without what depends on the channel and on the C library.
Stripped(fs) ==
  [i \in DOMAIN fs |-> [kind |-> fs[i].kind, f |-> fs[i].f, msg |-> fs[i].msg,
                         meta |-> fs[i].meta, checked |-> fs[i].checked]]

\* The OPEN and FRAME_RECD events of evs, their frame ordinals raised by k.
RxEvents(evs, k) ==
  LET rx == SelectSeq(evs, LAMBDA e : e.type \in {"OPEN", "FRAME_RECD"})
  IN  [j \in DOMAIN rx |-> [rx[j] EXCEPT !.frame = @ + k]]

\* C20: on a channel that does not wait for the start frame, fed a stream no
\* prefix of which leaves more than max_frame_size + 6 bytes unconsumed, every
\* dispatcher run leaves the receive buffer, and adds to the frames extracted,
\* to the OPEN and FRAME_RECD events raised and to the handshake replies
\* queued, exactly what reading the stream so far at once would have given,
\* however the stream was split across runs; the events of a run are raised in
\* the order of the frames in the stream.
C20_ChunkingIndependence ==
  [][(~wait_for_start_frame /\ script \in FittingScripts /\ op' = "dispatch") =>
        /\ recv_mbuf = Ref(pos, "wrap").recv
        /\ recv_mbuf' = Ref(pos', "wrap").recv
        /\ Stripped(Ref(pos', "wrap").frames) =
              Stripped(Ref(pos, "wrap").frames) \o Stripped(frames')
        /\ \A i, j \in DOMAIN RxEvents(events', 0) :
              i < j => RxEvents(events', 0)[i].frame <= RxEvents(events', 0)[j].frame
        /\ connected = Ref(pos, "wrap").connected =>
              \E ovf \in OvfModes :
                 LET a == Ref(pos, ovf)
                     b == Ref(pos', ovf)
                 IN  /\ b.events = a.events \o RxEvents(events', Len(a.frames))
                     /\ mid'.send = send_mbuf \o SubSeq(b.send, Len(a.send) + 1, Len(b.send))
                     /\ connected' = b.connected]_vars

\* C20, witness: the stream of one frame read in several runs, the last of
\* which found the frame's end and delivered it.
C20_Witness ==
  /\ ~wait_for_start_frame
  /\ script = EncodeFrame(MSG)
  /\ script \in FittingScripts
  /\ op = "dispatch"
  /\ pos = Len(script)
  /\ Len(frames) = 1
  /\ Delivered(1, MSG)

====
